---- MODULE Spec2Model ----
(***************************************************************************)
(* Model of the cascade engine (src/engine.js): two amortising loans are   *)
(* simulated month by month, separately (simulateSingle, simulateBaseline) *)
(* and with pooled overpayments (simulateCascade), and calculateCascade    *)
(* assembles the comparison.                                               *)
(*                                                                         *)
(* Money is an integer number of cents.  A quantity that the code rounds   *)
(* with roundMoney is kept as an exact fraction num/den of a cent until    *)
(* the rounding, which is round-half-up (Math.round).  A rate is the       *)
(* annual rate in percent, so the monthly rate is rate / 1200.             *)
(***************************************************************************)
EXTENDS Integers, Sequences, FiniteSets, TLC

(* ----------------------------- bounds ---------------------------------- *)

\* largest monthly overpayment (cents) among the enumerated inputs
MaxExtra == 700

\* largest starting balance (cents) among the enumerated inputs
MaxBalance == 2000

\* longest term (months) of the enumerated zero-rate loans
MaxTerm == 14

\* how many months before the safety cap the long runs are entered
NearCap == 4

\* term (months) of the loan whose balance / months is below half a cent
ThinTerm == 30000

\* balance (cents) of the large loans, whose monthly interest is several
\* pounds, and the large monthly overpayment (cents) made on them
LargeBalance == 16000

LargeExtra == 8000

\* term (months) of the rated loans for which Math.pow(1 + r, months) is
\* beyond the range of a double
OverflowTerm == 110000

(* ------------------------- program constants --------------------------- *)

MAX_MONTHS == 12000

(* ------------------------------ utilities ------------------------------ *)

Max(a, b) == IF a >= b THEN a ELSE b

MinTakesFirst(a, b) == a

Min(a, b) == IF a <= b THEN a ELSE b

Abs(a) == IF a < 0 THEN 0 - a ELSE a

Last(s) == s[Len(s)]

RECURSIVE Pow(_, _)
Pow(a, n) == IF n = 0 THEN 1 ELSE a * Pow(a, n - 1)

RECURSIVE GCD(_, _)
GCD(a, b) == IF b = 0 THEN a ELSE GCD(b, a % b)

\* roundMoney of the amount num/den cents (den > 0): Math.round(n * 100) / 100,
\* i.e. floor(x + 1/2) on the cent scale
roundMoney(num, den) == (num \div den) + (IF 2 * (num % den) >= den THEN 1 ELSE 0)

\* monthly rate rate/100/12 as the reduced fraction <<p, q>>
monthlyRate(rate) == LET g == GCD(1200, rate) IN <<rate \div g, 1200 \div g>>

\* Math.pow(1 + r, n) is Infinity.  For 0 < r <= 1, (1 + r)^(1/r) >= 2, so
\* n * r >= 1024 gives (1 + r)^n >= 2^1024, which is above every double.
\* (Sufficient, not necessary: the rated loans enumerated here either
\* satisfy it or have a term of at most three months.)
powIsInfinite(annualRate, totalMonths) ==
    annualRate > 0 /\ totalMonths * annualRate >= 1024 * 1200

\* NaN as a fraction: 0/0
NaNFraction == <<0, 0>>

\* NaN as an amount: a value that no amount of money of the program takes
\* (balances, payments and interest are >= 0).  It is negative, so that
\* x > 0 is false of it as it is of NaN; every other comparison with it is
\* written out where the code makes one.
NaN == -1

\* the amortisation formula, as the exact fraction <<num, den>> of cents.
\* When the power is Infinity the code computes
\* principal * (r * Infinity) / (Infinity - 1) = Infinity / Infinity = NaN.
monthlyPayment(principal, annualRate, totalMonths) ==
    IF annualRate = 0 THEN <<principal, totalMonths>>
    ELSE IF powIsInfinite(annualRate, totalMonths) THEN NaNFraction
    ELSE CHOOSE pay \in
             {LET p == r[1]
                  q == r[2]
                  a == Pow(q + p, totalMonths)
              IN  <<principal * p * a, q * (a - Pow(q, totalMonths))>> :
                  r \in {monthlyRate(annualRate)}} : TRUE

\* a payment taken off a balance: roundMoney(balance - payment)
payDownSignSlip(balance, payment) == roundMoney(balance + payment, 1)

payDown(balance, payment) == roundMoney(balance - payment, 1)

\* interest of one month on a balance: roundMoney(balance * r)
interestOnRoundedDown(balance, rate) == (balance * rate) \div 1200

interestOnWithMinimumCharge(balance, rate) == Max(1, roundMoney(balance * rate, 1200))

interestOn(balance, rate) == roundMoney(balance * rate, 1200)

\* roundMoney(NaN) is NaN, and both NaN < 0.01 and NaN <= firstInterest
\* are false: a NaN from the formula is returned as it is
computeScheduledPayment(m) ==
    CHOOSE sched \in
        {LET sch0 == roundMoney(pay[1], pay[2])
             sch1 == IF sch0 < 1 THEN 1 ELSE sch0
         IN  IF pay = NaNFraction THEN NaN
             ELSE IF m.rate > 0 /\ sch1 <= firstInterest
             THEN roundMoney(firstInterest + 1, 1)
             ELSE sch1 :
             pay \in {monthlyPayment(m.balance, m.rate, m.months)},
             firstInterest \in {interestOn(m.balance, m.rate)}} : TRUE

(* ------------------------------- state --------------------------------- *)

VARIABLES
    m1, m2,              \* the two normalised mortgages [balance, rate, months]
    extra1, extra2,      \* the two normalised monthly overpayments
    redirectScheduled,   \* toggle: a cleared loan's scheduled payment feeds the pool
    redirectExtra,       \* toggle: a cleared loan's overpayment feeds the pool
    strategy,            \* "avalanche" or "snowball"
    pc,                  \* position in calculateCascade
    single,              \* locals of the running simulateSingle call
    singleM1, singleM2,  \* the values returned by the two simulateSingle calls
    baseline,            \* the value returned by simulateBaseline
    cas,                 \* locals of simulateCascade that live across months
    month,               \* locals of the latest month of simulateCascade
    cascade,             \* the value returned by simulateCascade
    result               \* the value returned by calculateCascade

vars == <<m1, m2, extra1, extra2, redirectScheduled, redirectExtra, strategy,
          pc, single, singleM1, singleM2, baseline, cas, month, cascade, result>>

inputs == <<m1, m2, extra1, extra2, redirectScheduled, redirectExtra, strategy>>

\* "nothing returned (yet)"
NoResult == [returned |-> FALSE]

\* the arguments of simulateCascade
args ==
    [m1 |-> m1, m2 |-> m2, extra1 |-> extra1, extra2 |-> extra2,
     redirectScheduled |-> redirectScheduled, redirectExtra |-> redirectExtra,
     strategy |-> strategy]

\* the common denominator of the attribution accumulators: while both loans
\* are active the shares are used * from / (extra1 + extra2)
den(e1, e2) == IF e1 + e2 > 0 THEN e1 + e2 ELSE 1

Den == den(extra1, extra2)

(* ---------------------------- enumerated inputs ------------------------ *)

Balances == {100, 900, MaxBalance}

Extras == {0, 50, MaxExtra}

RatedLoans == [balance : Balances, rate : {12, 24}, months : {2, 3}]

ZeroRateLoans == [balance : Balances, rate : {0}, months : {1, MaxTerm}]

Loans == RatedLoans \cup ZeroRateLoans

LargeLoans == [balance : {LargeBalance}, rate : {24}, months : {2, 3}]

LargeExtras == {0, LargeExtra}

\* a zero-rate loan of n cents over n months: its scheduled payment is one cent
centAMonth(n) == [balance |-> n, rate |-> 0, months |-> n]

Strategies == {"avalanche", "snowball"}

\* locals of simulateSingle before its loop
singleStart(m) ==
    [balance |-> m.balance, months |-> 0, interestTotal |-> 0,
     balances |-> <<m.balance>>]

\* locals of simulateCascade before its loop
cascadeStart(ma, mb) ==
    [b1 |-> ma.balance, b2 |-> mb.balance, months |-> 0, interestTotal |-> 0,
     yearly |-> <<>>, yearInterest |-> 0, yearExtra |-> 0,
     yearExtraToM1 |-> 0, yearExtraToM2 |-> 0, yearFromM1 |-> 0, yearFromM2 |-> 0,
     m1ExtraPaidToM1 |-> 0, m1ExtraPaidToM2 |-> 0,
     m2ExtraPaidToM1 |-> 0, m2ExtraPaidToM2 |-> 0,
     balances |-> <<roundMoney(ma.balance + mb.balance, 1)>>,
     m1Balances |-> <<roundMoney(ma.balance, 1)>>,
     m2Balances |-> <<roundMoney(mb.balance, 1)>>]

NoMonth ==
    [startB1 |-> 0, startB2 |-> 0, i1 |-> 0, i2 |-> 0, p1 |-> 0, p2 |-> 0,
     fromM1 |-> 0, fromM2 |-> 0, availableExtra |-> 0, bothActive |-> FALSE,
     dest |-> "none", usedM1 |-> 0, usedM2 |-> 0]

InitWith(ma, mb, e1, e2, rs, re, st) ==
    /\ m1 = ma /\ m2 = mb /\ extra1 = e1 /\ extra2 = e2
    /\ redirectScheduled = rs /\ redirectExtra = re /\ strategy = st
    /\ pc = "single1"
    /\ single = singleStart(ma)
    /\ singleM1 = NoResult /\ singleM2 = NoResult /\ baseline = NoResult
    /\ cas = cascadeStart(ma, mb)
    /\ month = NoMonth
    /\ cascade = NoResult /\ result = NoResult

\* short runs: every combination of the enumerated loans, overpayments,
\* toggles and strategies
InitShort ==
    \E ma \in Loans, mb \in Loans, e1 \in Extras, e2 \in Extras,
       rs \in BOOLEAN, re \in BOOLEAN, st \in Strategies :
        InitWith(ma, mb, e1, e2, rs, re, st)

\* calls in which the first loan is the smallest balance spread over ThinTerm
\* months, with an overpayment
InitThin ==
    \E mb \in ZeroRateLoans, rs \in BOOLEAN, re \in BOOLEAN, st \in Strategies :
        InitWith([balance |-> 100, rate |-> 0, months |-> ThinTerm], mb, 50, 0, rs, re, st)

\* calls in which at least one loan is a large one
InitLarge ==
    \E ma \in Loans \cup LargeLoans, mb \in Loans \cup LargeLoans,
       e1 \in LargeExtras, e2 \in LargeExtras,
       rs \in BOOLEAN, re \in BOOLEAN, st \in Strategies :
        /\ ma \in LargeLoans \/ mb \in LargeLoans
        /\ InitWith(ma, mb, e1, e2, rs, re, st)


(* --------------------------- simulateSingle ---------------------------- *)

\* one iteration of the while loop of simulateSingle for mortgage m
singleMonthNoPayoffBranch(s, m, extra) ==
    LET scheduled == computeScheduledPayment(m)
        interest  == interestOn(s.balance, m.rate)
        principal0 == roundMoney(scheduled - interest, 1)
        principal == IF principal0 < 0 THEN 0 ELSE principal0
        totalPayment == roundMoney(principal + extra, 1)
    IN  [balance |-> payDown(s.balance, totalPayment),
         months |-> s.months + 1,
         interestTotal |-> roundMoney(s.interestTotal + interest, 1),
         balances |-> Append(s.balances, payDown(s.balance, totalPayment))]

singleMonthPayoffWithoutInterest(s, m, extra) ==
    LET scheduled == computeScheduledPayment(m)
        interest  == interestOn(s.balance, m.rate)
        principal0 == roundMoney(scheduled - interest, 1)
        principal == IF principal0 < 0 THEN 0 ELSE principal0
        totalPayment == roundMoney(principal + extra, 1)
    IN  IF totalPayment >= s.balance
        THEN [balance |-> 0,
              months |-> s.months + 1,
              interestTotal |-> s.interestTotal,
              balances |-> Append(s.balances, 0)]
        ELSE [balance |-> payDown(s.balance, totalPayment),
              months |-> s.months + 1,
              interestTotal |-> roundMoney(s.interestTotal + interest, 1),
              balances |-> Append(s.balances, payDown(s.balance, totalPayment))]

\* (with scheduled = NaN the principal and the payment are NaN,
\* totalPayment >= balance is false and the new balance is NaN)
singleMonth(s, m, extra) ==
    LET scheduled == computeScheduledPayment(m)
        interest  == interestOn(s.balance, m.rate)
        principal0 == roundMoney(scheduled - interest, 1)
        principal == IF principal0 < 0 THEN 0 ELSE principal0
        totalPayment == roundMoney(principal + extra, 1)
    IN  IF scheduled = NaN
        THEN [balance |-> NaN,
              months |-> s.months + 1,
              interestTotal |-> roundMoney(s.interestTotal + interest, 1),
              balances |-> Append(s.balances, NaN)]
        ELSE IF totalPayment >= s.balance
        THEN [balance |-> 0,
              months |-> s.months + 1,
              interestTotal |-> roundMoney(s.interestTotal + interest, 1),
              balances |-> Append(s.balances, 0)]
        ELSE [balance |-> payDown(s.balance, totalPayment),
              months |-> s.months + 1,
              interestTotal |-> roundMoney(s.interestTotal + interest, 1),
              balances |-> Append(s.balances, payDown(s.balance, totalPayment))]

\* no simulateSingle call is running
NoCall == [balance |-> 0, months |-> 0, interestTotal |-> 0, balances |-> <<>>]

\* the condition of the while loop of simulateSingle
singleLoops(s) == s.balance > 0 /\ s.months < MAX_MONTHS

singleRunning == singleLoops(single)

RECURSIVE singleAfter(_, _, _, _)
\* the locals of simulateSingle after (at most) k iterations of its loop:
\* the first half of the iterations, then the rest
singleAfter(s, m, extra, k) ==
    IF k = 0 THEN s
    ELSE IF k = 1 THEN (IF singleLoops(s) THEN singleMonth(s, m, extra) ELSE s)
    ELSE CHOOSE r \in {singleAfter(half, m, extra, k - (k \div 2)) :
                          half \in {singleAfter(s, m, extra, k \div 2)}} : TRUE

singleReturn(s) ==
    [returned |-> TRUE, months |-> s.months, interest |-> s.interestTotal,
     balances |-> s.balances]

SingleStep1 ==
    /\ pc = "single1" /\ singleRunning
    /\ single' = singleMonth(single, m1, extra1)
    /\ UNCHANGED <<inputs, pc, singleM1, singleM2, baseline, cas, month, cascade, result>>

SingleStep2WithPooledExtra ==
    /\ pc = "single2" /\ singleRunning
    /\ single' = singleMonth(single, m2, extra1 + extra2)
    /\ UNCHANGED <<inputs, pc, singleM1, singleM2, baseline, cas, month, cascade, result>>

SingleStep2 ==
    /\ pc = "single2" /\ singleRunning
    /\ single' = singleMonth(single, m2, extra2)
    /\ UNCHANGED <<inputs, pc, singleM1, singleM2, baseline, cas, month, cascade, result>>

\* the safety cap of simulateSingle: the error leaves calculateCascade
SingleCap ==
    /\ pc \in {"single1", "single2"} /\ ~singleRunning
    /\ single.months = MAX_MONTHS
    /\ pc' = "error"
    /\ UNCHANGED <<inputs, single, singleM1, singleM2, baseline, cas, month, cascade, result>>

SingleReturn1IgnoringCap ==
    /\ pc = "single1" /\ ~singleRunning
    /\ singleM1' = singleReturn(single)
    /\ single' = singleStart(m2)
    /\ pc' = "single2"
    /\ UNCHANGED <<inputs, singleM2, baseline, cas, month, cascade, result>>

SingleReturn1 ==
    /\ pc = "single1" /\ ~singleRunning
    /\ single.months # MAX_MONTHS
    /\ singleM1' = singleReturn(single)
    /\ single' = singleStart(m2)
    /\ pc' = "single2"
    /\ UNCHANGED <<inputs, singleM2, baseline, cas, month, cascade, result>>

SingleReturn2 ==
    /\ pc = "single2" /\ ~singleRunning
    /\ single.months # MAX_MONTHS
    /\ singleM2' = singleReturn(single)
    /\ single' = NoCall
    /\ pc' = "baseline"
    /\ UNCHANGED <<inputs, singleM1, baseline, cas, month, cascade, result>>

(* -------------------------- simulateBaseline --------------------------- *)

\* arr[i] || 0 with i counted from 1
orZero(arr, i) == IF i <= Len(arr) THEN arr[i] ELSE 0

\* the fields m1 and m2 of the returned object refer to the two
\* simulateSingle results, which the variables singleM1 and singleM2 hold
simulateBaselineOverShorterLength(b1, b2) ==
    LET minLen == Min(Len(b1.balances), Len(b2.balances))
    IN  [returned |-> TRUE,
         months |-> Max(b1.months, b2.months),
         interest |-> roundMoney(b1.interest + b2.interest, 1),
         balances |-> [i \in 1..minLen |->
                          roundMoney(orZero(b1.balances, i) + orZero(b2.balances, i), 1)]]

simulateBaseline(b1, b2) ==
    LET maxLen == Max(Len(b1.balances), Len(b2.balances))
    IN  [returned |-> TRUE,
         months |-> Max(b1.months, b2.months),
         interest |-> roundMoney(b1.interest + b2.interest, 1),
         balances |-> [i \in 1..maxLen |->
                          roundMoney(orZero(b1.balances, i) + orZero(b2.balances, i), 1)]]

BaselineReturn ==
    /\ pc = "baseline"
    /\ baseline' = simulateBaseline(singleM1, singleM2)
    /\ pc' = "cascade"
    /\ UNCHANGED <<inputs, single, singleM1, singleM2, cas, month, cascade, result>>

(* --------------------------- simulateCascade --------------------------- *)

\* if (b < 0.01) b = 0
snapBelowTenCents(b) == IF b < 10 THEN 0 ELSE b

snap(b) == IF b < 1 THEN 0 ELSE b

\* scheduled principal of one loan: roundMoney(sched - i) when the balance is
\* positive, then Math.max(0, Math.min(p, b))
scheduledPrincipalIgnoringInterest(b, sched, i) ==
    LET p == IF b > 0 THEN sched ELSE 0
    IN  Max(0, Min(p, b))

scheduledPrincipal(b, sched, i) ==
    LET p == IF b > 0 THEN roundMoney(sched - i, 1) ELSE 0
    IN  Max(0, Min(p, b))

\* which loan receives the pool while both are active
targetM1LowerRate(st, ma, mb, b1, b2) ==
    IF st = "avalanche" THEN ma.rate <= mb.rate ELSE b1 <= b2

targetM1TiesToSecond(st, ma, mb, b1, b2) ==
    IF st = "avalanche" THEN ma.rate > mb.rate ELSE b1 < b2

targetM1(st, ma, mb, b1, b2) ==
    IF st = "avalanche" THEN ma.rate >= mb.rate ELSE b1 <= b2

\* contribution of a cleared loan to the pool
clearedContributionWithoutScheduled(extra, sched, rs, re) ==
    IF re THEN extra ELSE 0

clearedContributionAlwaysScheduled(extra, sched, rs, re) ==
    (IF re THEN extra ELSE 0) + sched

clearedContributionTogglesInverted(extra, sched, rs, re) ==
    (IF re THEN 0 ELSE extra) + (IF rs THEN 0 ELSE sched)

clearedContribution(extra, sched, rs, re) ==
    (IF re THEN extra ELSE 0) + (IF rs THEN sched ELSE 0)

\* end-of-year check
yearClosesEveryMonth(months, b1, b2) == TRUE

yearClosesOnTwelfthOnly(months, b1, b2) == months % 12 = 0

yearCloses(months, b1, b2) == months % 12 = 0 \/ (b1 <= 0 /\ b2 <= 0)

\* one iteration of the while loop of simulateCascade: the locals of the month
cascadeLocals(c, a) ==
    LET sched1 == computeScheduledPayment(a.m1)
        sched2 == computeScheduledPayment(a.m2)
        i1 == IF c.b1 > 0 THEN interestOn(c.b1, a.m1.rate) ELSE 0
        i2 == IF c.b2 > 0 THEN interestOn(c.b2, a.m2.rate) ELSE 0
        p1 == scheduledPrincipal(c.b1, sched1, i1)
        p2 == scheduledPrincipal(c.b2, sched2, i2)
        b1 == payDown(c.b1, p1)
        b2 == payDown(c.b2, p2)
        both == b1 > 0 /\ b2 > 0
        fromM1 == IF both THEN a.extra1
                  ELSE IF b1 <= 0 /\ b2 > 0
                       THEN clearedContribution(a.extra1, sched1, a.redirectScheduled, a.redirectExtra)
                  ELSE IF b2 <= 0 /\ b1 > 0 THEN a.extra1
                  ELSE 0
        fromM2 == IF both THEN a.extra2
                  ELSE IF b1 <= 0 /\ b2 > 0 THEN a.extra2
                  ELSE IF b2 <= 0 /\ b1 > 0
                       THEN clearedContribution(a.extra2, sched2, a.redirectScheduled, a.redirectExtra)
                  ELSE 0
        availableExtra == fromM1 + fromM2
        tgt == targetM1(a.strategy, a.m1, a.m2, b1, b2)
        \* the branch of "Apply available extra" that runs
        dest == IF both THEN (IF tgt THEN "m1" ELSE "m2")
                ELSE IF b1 > 0 THEN "m1"
                ELSE IF b2 > 0 THEN "m2"
                ELSE "none"
    IN  [startB1 |-> c.b1, startB2 |-> c.b2, i1 |-> i1, i2 |-> i2, p1 |-> p1, p2 |-> p2,
         fromM1 |-> fromM1, fromM2 |-> fromM2, availableExtra |-> availableExtra,
         bothActive |-> both, dest |-> dest,
         usedM1 |-> IF dest = "m1" THEN Min(availableExtra, b1) ELSE 0,
         usedM2 |-> IF dest = "m2" THEN Min(availableExtra, b2) ELSE 0]

\* the state of simulateCascade after the month whose locals are mo
cascadeMonth(c, mo, a) ==
    LET D == den(a.extra1, a.extra2)
        months == c.months + 1
        used == mo.usedM1 + mo.usedM2
        totalSource == mo.fromM1 + mo.fromM2
        \* shares in units of 1/D cent; while both are active
        \* totalSource = extra1 + extra2 = D
        m1Share == IF mo.bothActive
                   THEN (IF totalSource > 0 THEN used * mo.fromM1 ELSE 0)
                   ELSE mo.fromM1 * D
        m2Share == IF mo.bothActive
                   THEN (IF totalSource > 0 THEN used * mo.fromM2 ELSE 0)
                   ELSE mo.fromM2 * D
        toM1 == mo.dest = "m1"
        toM2 == mo.dest = "m2"
        b1 == snap(roundMoney(payDown(payDown(c.b1, mo.p1), mo.usedM1), 1))
        b2 == snap(roundMoney(payDown(payDown(c.b2, mo.p2), mo.usedM2), 1))
        closes == yearCloses(months, b1, b2)
        yearInterest == roundMoney(c.yearInterest + mo.i1 + mo.i2, 1)
        yearExtraToM1 == c.yearExtraToM1 + mo.usedM1
        yearExtraToM2 == c.yearExtraToM2 + mo.usedM2
        yearFromM1 == c.yearFromM1 + m1Share
        yearFromM2 == c.yearFromM2 + m2Share
    IN  [b1 |-> b1, b2 |-> b2, months |-> months,
         interestTotal |-> roundMoney(c.interestTotal + mo.i1 + mo.i2, 1),
         yearly |-> IF closes
                    THEN Append(c.yearly,
                           [year |-> (months + 11) \div 12,
                            interest |-> roundMoney(yearInterest, 1),
                            fromM1 |-> roundMoney(yearFromM1, D),
                            fromM2 |-> roundMoney(yearFromM2, D),
                            extraToM1 |-> roundMoney(yearExtraToM1, 1),
                            extraToM2 |-> roundMoney(yearExtraToM2, 1),
                            endBalanceM1 |-> roundMoney(b1, 1),
                            endBalanceM2 |-> roundMoney(b2, 1)])
                    ELSE c.yearly,
         yearInterest |-> IF closes THEN 0 ELSE yearInterest,
         yearExtra |-> IF closes THEN 0 ELSE c.yearExtra + used,
         yearExtraToM1 |-> IF closes THEN 0 ELSE yearExtraToM1,
         yearExtraToM2 |-> IF closes THEN 0 ELSE yearExtraToM2,
         yearFromM1 |-> IF closes THEN 0 ELSE yearFromM1,
         yearFromM2 |-> IF closes THEN 0 ELSE yearFromM2,
         m1ExtraPaidToM1 |-> c.m1ExtraPaidToM1 + (IF toM1 THEN m1Share ELSE 0),
         m1ExtraPaidToM2 |-> c.m1ExtraPaidToM2 + (IF toM2 THEN m1Share ELSE 0),
         m2ExtraPaidToM1 |-> c.m2ExtraPaidToM1 + (IF toM1 THEN m2Share ELSE 0),
         m2ExtraPaidToM2 |-> c.m2ExtraPaidToM2 + (IF toM2 THEN m2Share ELSE 0),
         balances |-> Append(c.balances, roundMoney(b1 + b2, 1)),
         m1Balances |-> Append(c.m1Balances, roundMoney(b1, 1)),
         m2Balances |-> Append(c.m2Balances, roundMoney(b2, 1))]

\* the condition of the while loop of simulateCascade and of its break
cascadeLoops(c) == c.months < MAX_MONTHS /\ ~(c.b1 <= 0 /\ c.b2 <= 0)

cascadeRunning == cascadeLoops(cas)

\* one iteration of the loop of simulateCascade
cascadeIteration(c, a) ==
    CHOOSE r \in {cascadeMonth(c, mo, a) : mo \in {cascadeLocals(c, a)}} : TRUE

RECURSIVE cascadeAfter(_, _, _)
\* the locals of simulateCascade after (at most) k iterations of its loop
\* (evaluated like singleAfter)
cascadeAfter(c, a, k) ==
    IF k = 0 THEN c
    ELSE IF k = 1 THEN (IF cascadeLoops(c) THEN cascadeIteration(c, a) ELSE c)
    ELSE CHOOSE r \in {cascadeAfter(half, a, k - (k \div 2)) :
                          half \in {cascadeAfter(c, a, k \div 2)}} : TRUE

CascadeStep ==
    /\ pc = "cascade" /\ cascadeRunning
    /\ month' = cascadeLocals(cas, args)
    /\ cas' = cascadeMonth(cas, month', args)
    /\ UNCHANGED <<inputs, pc, single, singleM1, singleM2, baseline, cascade, result>>

\* the safety cap of simulateCascade
CascadeCap ==
    /\ pc = "cascade" /\ ~cascadeRunning
    /\ cas.months = MAX_MONTHS
    /\ pc' = "error"
    /\ UNCHANGED <<inputs, single, singleM1, singleM2, baseline, cas, month, cascade, result>>

cascadeReturn(c) ==
    [returned |-> TRUE, months |-> c.months,
     interest |-> roundMoney(c.interestTotal, 1),
     balances |-> c.balances, m1Balances |-> c.m1Balances, m2Balances |-> c.m2Balances,
     yearly |-> c.yearly,
     attribution |->
        [m1ExtraPaidToM1 |-> roundMoney(c.m1ExtraPaidToM1, Den),
         m1ExtraPaidToM2 |-> roundMoney(c.m1ExtraPaidToM2, Den),
         m2ExtraPaidToM1 |-> roundMoney(c.m2ExtraPaidToM1, Den),
         m2ExtraPaidToM2 |-> roundMoney(c.m2ExtraPaidToM2, Den)]]

CascadeReturn ==
    /\ pc = "cascade" /\ ~cascadeRunning
    /\ cas.months # MAX_MONTHS
    /\ cascade' = cascadeReturn(cas)
    /\ pc' = "assemble"
    /\ UNCHANGED <<inputs, single, singleM1, singleM2, baseline, cas, month, result>>

(* --------------------------- calculateCascade -------------------------- *)

comparisonWithoutNoiseFilter(base, casc) ==
    LET rawMonthsSaved == base.months - casc.months
        rawInterestSaved == roundMoney(base.interest - casc.interest, 1)
    IN  [returned |-> TRUE,
         baseline |-> base,
         cascade |-> casc,
         monthsSaved |-> Max(0, rawMonthsSaved),
         interestSaved |-> Max(0, rawInterestSaved),
         scheduled1 |-> computeScheduledPayment(m1),
         scheduled2 |-> computeScheduledPayment(m2)]

comparison(base, casc) ==
    LET rawMonthsSaved == base.months - casc.months
        rawInterestSaved == roundMoney(base.interest - casc.interest, 1)
    IN  [returned |-> TRUE,
         baseline |-> base,
         cascade |-> casc,
         monthsSaved |-> IF Abs(rawMonthsSaved) <= 1 THEN 0 ELSE Max(0, rawMonthsSaved),
         interestSaved |-> IF Abs(rawInterestSaved) < 50 THEN 0 ELSE Max(0, rawInterestSaved),
         scheduled1 |-> computeScheduledPayment(m1),
         scheduled2 |-> computeScheduledPayment(m2)]

Return ==
    /\ pc = "assemble"
    /\ result' = comparison(baseline, cascade)
    /\ pc' = "done"
    /\ UNCHANGED <<inputs, single, singleM1, singleM2, baseline, cas, month, cascade>>

(* ------------------------------ initial states ------------------------- *)

\* calculateCascade entered in a simulateSingle(m1) that has already run k
\* months of its loop
InitInSingle(ma, mb, e1, e2, rs, re, st, k) ==
    /\ m1 = ma /\ m2 = mb /\ extra1 = e1 /\ extra2 = e2
    /\ redirectScheduled = rs /\ redirectExtra = re /\ strategy = st
    /\ pc = "single1"
    /\ single = singleAfter(singleStart(ma), ma, e1, k)
    /\ single.months = k
    /\ singleM1 = NoResult /\ singleM2 = NoResult /\ baseline = NoResult
    /\ cas = cascadeStart(ma, mb)
    /\ month = NoMonth
    /\ cascade = NoResult /\ result = NoResult

\* calculateCascade entered in a simulateCascade that has already run k
\* months of its loop (k >= 1), simulateBaseline having returned
InitInCascade(ma, mb, e1, e2, rs, re, st, k) ==
    /\ m1 = ma /\ m2 = mb /\ extra1 = e1 /\ extra2 = e2
    /\ redirectScheduled = rs /\ redirectExtra = re /\ strategy = st
    /\ pc = "cascade"
    /\ single = NoCall
    /\ singleM1 = singleReturn(singleAfter(singleStart(ma), ma, e1, MAX_MONTHS))
    /\ singleM1.months < MAX_MONTHS
    /\ singleM2 = singleReturn(singleAfter(singleStart(mb), mb, e2, MAX_MONTHS))
    /\ singleM2.months < MAX_MONTHS
    /\ baseline = simulateBaseline(singleM1, singleM2)
    /\ \E a \in {[m1 |-> ma, m2 |-> mb, extra1 |-> e1, extra2 |-> e2,
                   redirectScheduled |-> rs, redirectExtra |-> re, strategy |-> st]} :
       \E before \in {cascadeAfter(cascadeStart(ma, mb), a, k - 1)} :
           /\ before.months = k - 1
           /\ month = cascadeLocals(before, a)
           /\ cas = cascadeMonth(before, month, a)
    /\ cas.months = k
    /\ cascade = NoResult /\ result = NoResult

\* runs that reach MAX_MONTHS months, entered NearCap months before the cap:
\* a loan that simulateSingle does not clear in time, and a pair that
\* simulateSingle clears in time and simulateCascade does not (the second
\* loan's overpayment goes to the first loan while both are active)
InitLong ==
    \/ InitInSingle(centAMonth(MAX_MONTHS + 1), centAMonth(100), 0, 0, FALSE, FALSE,
                    "avalanche", MAX_MONTHS - NearCap)
    \/ InitInCascade(centAMonth(100), centAMonth(2 * MAX_MONTHS - 2), 0, 1, FALSE, FALSE,
                     "avalanche", MAX_MONTHS - NearCap)

Init == InitShort \/ InitLarge \/ InitThin \/ InitLong

Next ==
    \/ SingleStep1
    \/ SingleReturn1
    \/ SingleStep2
    \/ SingleReturn2
    \/ SingleCap
    \/ BaselineReturn
    \/ CascadeStep
    \/ CascadeCap
    \/ CascadeReturn
    \/ Return

Spec == Init /\ [][Next]_vars

(* ------------- the first simulateSingle call, on more loans ------------ *)

\* rated loans whose term puts Math.pow(1 + r, months) beyond the doubles
OverflowLoans == [balance : Balances, rate : {12, 24}, months : {OverflowTerm}]

FirstLoans ==
    Loans \cup LargeLoans \cup OverflowLoans
          \cup {[balance |-> 100, rate |-> 0, months |-> ThinTerm]}

\* calculateCascade entered with any of these loans as the first mortgage;
\* then, NearCap months before the cap, with a first mortgage that
\* simulateSingle does not clear in time and with one that it clears in
\* month MAX_MONTHS
InitFirstLoan ==
    \/ \E ma \in FirstLoans, e1 \in Extras :
           InitWith(ma, centAMonth(100), e1, 0, FALSE, FALSE, "avalanche")
    \/ InitInSingle(centAMonth(MAX_MONTHS + 1), centAMonth(100), 0, 0, FALSE, FALSE,
                    "avalanche", MAX_MONTHS - NearCap)
    \/ InitInSingle(centAMonth(MAX_MONTHS), centAMonth(100), 0, 0, FALSE, FALSE,
                    "avalanche", MAX_MONTHS - NearCap)

\* calculateCascade up to the end of simulateSingle(m1, extra1)
NextFirstLoan ==
    \/ SingleStep1
    \/ SingleReturn1
    \/ SingleCap

SpecFirstLoan == InitFirstLoan /\ [][NextFirstLoan]_vars

(* ------------------------------- claims -------------------------------- *)

RECURSIVE SumBetween(_, _, _, _)
\* sum of f(seq[i]) for i in lo..hi, by halves
SumBetween(f(_), seq, lo, hi) ==
    IF lo > hi THEN 0
    ELSE IF lo = hi THEN f(seq[lo])
    ELSE SumBetween(f, seq, lo, (lo + hi) \div 2)
            + SumBetween(f, seq, ((lo + hi) \div 2) + 1, hi)

\* sum of f(seq[i]) for i in 1..n
SumOver(f(_), seq, n) == SumBetween(f, seq, 1, n)

contributed(y) == y.fromM1 + y.fromM2

applied(y) == y.extraToM1 + y.extraToM2

\* C1: cascade never worse -- every result returned by calculateCascade has
\* cascade.interest <= baseline.interest + 0.01.  (Refuted by the code.)
C1_CascadeNeverWorse ==
    pc = "done" => result.cascade.interest <= result.baseline.interest + 1

\* C2 as stated: with extraA = extraB = 0 and both redirect toggles on, the
\* result has interestSaved = 0 and monthsSaved = 0.  (Refuted by the code.)
C2_ZeroExtraDefaultToggles ==
    (pc = "done" /\ extra1 = 0 /\ extra2 = 0 /\ redirectScheduled /\ redirectExtra)
        => (result.interestSaved = 0 /\ result.monthsSaved = 0)

\* C2, the case in which the code does reproduce the baseline: with
\* extraA = extraB = 0 and redirectScheduled off (redirectExtra either way)
\* the result has interestSaved = 0 and monthsSaved = 0, the cascade run
\* having the baseline's months and interest.
C2_ZeroExtraNoScheduledRedirect ==
    (pc = "done" /\ extra1 = 0 /\ extra2 = 0 /\ ~redirectScheduled)
        => /\ result.interestSaved = 0
           /\ result.monthsSaved = 0
           /\ result.cascade.months = result.baseline.months
           /\ result.cascade.interest = result.baseline.interest

\* C2: a finished zero-extra run without scheduled redirect in which one
\* loan cleared at least two months before the other
C2_Witness ==
    /\ pc = "done" /\ extra1 = 0 /\ extra2 = 0 /\ ~redirectScheduled
    /\ redirectExtra
    /\ Abs(singleM1.months - singleM2.months) >= 2
    /\ result.cascade.interest > 0

\* C3: conservation -- over a complete cascade run the yearly contributed
\* amounts (fromM1 + fromM2) and the yearly applied amounts (extraToM1 +
\* extraToM2) add up to the same total, within 1.00.  (Refuted by the code.)
C3_Conservation ==
    cascade.returned =>
        Abs(SumOver(contributed, cascade.yearly, Len(cascade.yearly))
            - SumOver(applied, cascade.yearly, Len(cascade.yearly))) <= 100

C6_Termination ==
    /\ pc # "error"
    /\ single.months < MAX_MONTHS
    /\ cas.months < MAX_MONTHS

\* C7: every result returned by calculateCascade has
\* cascade.months <= baseline.months.  (Refuted by the code.)
C7_MonthsAsserted ==
    pc = "done" => result.cascade.months <= result.baseline.months

\* reductions of the two balances over the latest cascade month
reductionM1 == month.startB1 - cas.b1

reductionM2 == month.startB2 - cas.b2

C9_CapIsFatal ==
    /\ pc = "error" =>
          /\ ~result.returned /\ ~cascade.returned
          /\ single.months = MAX_MONTHS \/ cas.months = MAX_MONTHS
    /\ single.months = MAX_MONTHS => pc \in {"single1", "single2", "error"}
    /\ cas.months = MAX_MONTHS => pc \in {"cascade", "error"}
    /\ singleM1.returned =>
          singleM1.months < MAX_MONTHS /\ Last(singleM1.balances) = 0
    /\ singleM2.returned =>
          singleM2.months < MAX_MONTHS /\ Last(singleM2.balances) = 0
    /\ cascade.returned =>
          /\ cascade.months < MAX_MONTHS
          /\ cas.b1 = 0 /\ cas.b2 = 0
    /\ result.returned =>
          /\ baseline.returned /\ cascade.returned
          /\ result.baseline = baseline /\ result.cascade = cascade

\* C9 witness: simulateCascade stopped by the cap with a balance left, after
\* the baseline had been returned
C9_Witness ==
    /\ pc = "error" /\ cas.months = MAX_MONTHS /\ cas.b2 > 0
    /\ baseline.returned

\* C10: whenever simulateCascade returns, the last entries of both loans'
\* sequences and of the combined sequence are 0, and the last YearlySummary
\* has end balance 0 for both loans.
C10_FinalBalancesZero ==
    cascade.returned =>
        /\ Last(cascade.m1Balances) = 0
        /\ Last(cascade.m2Balances) = 0
        /\ Last(cascade.balances) = 0
        /\ Len(cascade.yearly) > 0
        /\ Last(cascade.yearly).endBalanceM1 = 0
        /\ Last(cascade.yearly).endBalanceM2 = 0
        /\ Last(cascade.yearly).year = (cascade.months + 11) \div 12

\* C10 witness: a returned cascade whose last month is not a twelfth month
\* and whose loans cleared in different months
C10_Witness ==
    /\ cascade.returned /\ cascade.months % 12 # 0 /\ cascade.months > 12
    /\ cascade.m1Balances[Len(cascade.m1Balances) - 1] = 0
    /\ cascade.m2Balances[Len(cascade.m2Balances) - 1] > 0

\* raw differences between the baseline and the cascade of the returned result
monthsDifference == result.baseline.months - result.cascade.months

interestDifference == result.baseline.interest - result.cascade.interest

\* C11: savings metrics -- in every returned ComparisonResult monthsSaved is 0
\* when the months differ by at most 1 and otherwise max(0, difference);
\* interestSaved is 0 when the interest differs by less than 0.50 and
\* otherwise max(0, difference); both are >= 0.
C11_SavingsMetrics ==
    pc = "done" =>
        /\ result.monthsSaved =
              (IF monthsDifference >= -1 /\ monthsDifference <= 1 THEN 0
               ELSE IF monthsDifference > 0 THEN monthsDifference ELSE 0)
        /\ result.interestSaved =
              (IF interestDifference > -50 /\ interestDifference < 50 THEN 0
               ELSE IF interestDifference > 0 THEN interestDifference ELSE 0)
        /\ result.monthsSaved >= 0 /\ result.interestSaved >= 0

\* C11 witness: a returned result in which the cascade is one month faster
\* (filtered to 0) and saves more than 0.50 of interest (reported)
C11_Witness ==
    /\ pc = "done" /\ monthsDifference = 1 /\ result.monthsSaved = 0
    /\ interestDifference >= 50 /\ result.interestSaved = interestDifference

RECURSIVE cascadeToEnd(_, _)
\* the locals of simulateCascade when its loop has ended
cascadeToEnd(c, a) ==
    IF cascadeLoops(c)
    THEN CHOOSE r \in {cascadeToEnd(n, a) : n \in {cascadeIteration(c, a)}} : TRUE
    ELSE c

\* the simulateCascade run on the same loans, extras and strategy with both
\* redirect toggles off
redirectOffRun ==
    cascadeToEnd(cascadeStart(m1, m2),
                 [args EXCEPT !.redirectScheduled = FALSE, !.redirectExtra = FALSE])

\* C12: redirect never worsens payoff time -- a returned cascade run with both
\* redirect toggles on has months <= the run with both toggles off, and in
\* every month each loan's balance is <= its balance in the run with the
\* toggles off.
C12_RedirectNeverWorse ==
    (cascade.returned /\ redirectScheduled /\ redirectExtra) =>
        /\ cascade.months <= redirectOffRun.months
        /\ \A i \in 1..Len(cascade.m1Balances) :
              /\ cascade.m1Balances[i] <= redirectOffRun.m1Balances[i]
              /\ cascade.m2Balances[i] <= redirectOffRun.m2Balances[i]

\* C12 witness: a returned run with both toggles on that is shorter than the
\* run with the toggles off
C12_Witness ==
    /\ cascade.returned /\ redirectScheduled /\ redirectExtra
    /\ cascade.months > 1
    /\ cascade.months < redirectOffRun.months

\* C13: redirect-off bound -- with both redirect toggles off a loan that is
\* cleared after the month's scheduled payments contributes nothing, every
\* month's pool is <= extraA + extraB, and every YearlySummary has
\* fromM1 + fromM2 <= 12 * (extraA + extraB), within 1.00.
C13_RedirectOffBound ==
    (~redirectScheduled /\ ~redirectExtra) =>
        /\ cas.months > 0 =>
              /\ month.availableExtra <= extra1 + extra2
              /\ month.startB1 - month.p1 <= 0 => month.fromM1 = 0
              /\ month.startB2 - month.p2 <= 0 => month.fromM2 = 0
        /\ \A i \in 1..Len(cas.yearly) :
              contributed(cas.yearly[i]) <= 12 * (extra1 + extra2) + 100

\* C13 witness: toggles off, a month in which loan A is cleared and has an
\* extra of its own while loan B is still paying, a year having been closed
C13_Witness ==
    /\ ~redirectScheduled /\ ~redirectExtra
    /\ pc = "cascade" /\ cas.months > 0
    /\ month.startB1 - month.p1 = 0 /\ month.dest = "m2"
    /\ extra1 > 0 /\ extra2 > 0 /\ month.fromM1 = 0
    /\ Len(cas.yearly) > 0 /\ contributed(cas.yearly[1]) > 0

\* C14: zero-rate loans -- a loan with rate 0 is charged interest 0 in every
\* month of simulateSingle and of simulateCascade, so its total interest is
\* exactly 0, and its scheduled payment is balance / months rounded to cents
\* and at least 0.01.
C14_ZeroRate ==
    /\ m1.rate = 0 =>
          /\ computeScheduledPayment(m1) = Max(1, roundMoney(m1.balance, m1.months))
          /\ pc = "single1" => single.interestTotal = 0
          /\ singleM1.returned => singleM1.interest = 0
          /\ month.i1 = 0
          /\ result.returned => result.scheduled1 = Max(1, roundMoney(m1.balance, m1.months))
    /\ m2.rate = 0 =>
          /\ computeScheduledPayment(m2) = Max(1, roundMoney(m2.balance, m2.months))
          /\ pc = "single2" => single.interestTotal = 0
          /\ singleM2.returned => singleM2.interest = 0
          /\ month.i2 = 0
          /\ result.returned => result.scheduled2 = Max(1, roundMoney(m2.balance, m2.months))
    /\ (m1.rate = 0 /\ m2.rate = 0) =>
          /\ cas.interestTotal = 0
          /\ baseline.returned => baseline.interest = 0
          /\ cascade.returned => cascade.interest = 0

\* C14 witness: a returned comparison of two zero-rate loans, one whose
\* balance / months rounds to 0 and is paid 0.01 a month, the other with a
\* balance that is no multiple of its term
C14_Witness ==
    /\ pc = "done" /\ m1.rate = 0 /\ m2.rate = 0
    /\ roundMoney(m1.balance, m1.months) = 0 /\ result.scheduled1 = 1
    /\ m2.balance % m2.months # 0
    /\ result.cascade.months > 1 /\ result.cascade.interest = 0

\* the payment of one simulateSingle month on a balance: the principal
\* portion, not below 0, plus the extra
singlePayment(m, extra, balance) ==
    Max(0, computeScheduledPayment(m) - interestOn(balance, m.rate)) + extra

\* what C15 requires of a simulateSingle result for mortgage m
payoffResult(r, m, extra) ==
    /\ r.months >= 1
    /\ Len(r.balances) = r.months + 1
    /\ r.balances[1] = m.balance /\ Last(r.balances) = 0
    /\ singlePayment(m, extra, m.balance) >= m.balance =>
          /\ r.months = 1
          /\ r.balances = <<m.balance, 0>>
          /\ r.interest = interestOn(m.balance, m.rate)

\* what C15 requires of one step: a month of the simulateSingle loop, or the
\* return of a simulateSingle call
payoffStep ==
    /\ (pc \in {"single1", "single2"} /\ pc' = pc /\ single'.months = single.months + 1) =>
          LET m == IF pc = "single1" THEN m1 ELSE m2
              extra == IF pc = "single1" THEN extra1 ELSE extra2
              pay == singlePayment(m, extra, single.balance)
          IN  /\ single.balance > 0
              /\ single'.interestTotal =
                    single.interestTotal + interestOn(single.balance, m.rate)
              /\ single'.balances = Append(single.balances, single'.balance)
              /\ pay >= single.balance =>
                    single'.balance = 0 /\ ~singleLoops(single')
              /\ pay < single.balance =>
                    single'.balance = single.balance - pay /\ single'.balance > 0
    /\ (~singleM1.returned /\ singleM1'.returned) => payoffResult(singleM1', m1, extra1)
    /\ (~singleM2.returned /\ singleM2'.returned) => payoffResult(singleM2', m2, extra2)

\* C15: payoff month of simulateSingle -- the first month whose payment
\* round(principal portion + extra) is >= the balance is the last month: the
\* balance becomes exactly 0, that month's interest is added to the total
\* and the month is counted; a loan whose first payment covers its balance
\* returns months = 1 and the sequence [balance, 0]; every returned run has
\* months >= 1.
C15_PayoffMonth == [][payoffStep]_vars

\* C15 witness: simulateSingle just after a payoff month, later than the
\* first, whose payment was larger than the balance and which bore interest
C15_Witness ==
    /\ pc = "single1" /\ single.months > 1 /\ single.balance = 0
    /\ m1.rate > 0 /\ single.interestTotal > 0
    /\ LET before == single.balances[Len(single.balances) - 1]
       IN  /\ singlePayment(m1, extra1, before) > before
           /\ interestOn(before, m1.rate) > 0

\* C16: sequence shape -- every balance sequence starts with the normalised
\* starting balance and has one entry per simulated month (length
\* months + 1); the three sequences of a cascade trace have equal length
\* and combined[i] = loanA[i] + loanB[i]; the combined baseline has the
\* length of the longer single-loan sequence, a finished loan counting 0.
C16_SequenceShape ==
    /\ singleM1.returned =>
          /\ Len(singleM1.balances) = singleM1.months + 1
          /\ singleM1.balances[1] = m1.balance
    /\ singleM2.returned =>
          /\ Len(singleM2.balances) = singleM2.months + 1
          /\ singleM2.balances[1] = m2.balance
    /\ baseline.returned =>
          /\ Len(baseline.balances) =
                (IF singleM1.months >= singleM2.months
                 THEN singleM1.months ELSE singleM2.months) + 1
          /\ \A i \in 1..Len(baseline.balances) :
                baseline.balances[i] =
                    (IF i <= Len(singleM1.balances) THEN singleM1.balances[i] ELSE 0)
                  + (IF i <= Len(singleM2.balances) THEN singleM2.balances[i] ELSE 0)
    /\ Len(cas.balances) = cas.months + 1
    /\ Len(cas.m1Balances) = cas.months + 1
    /\ Len(cas.m2Balances) = cas.months + 1
    /\ cas.m1Balances[1] = m1.balance /\ cas.m2Balances[1] = m2.balance
    /\ cas.balances[Len(cas.balances)]
          = cas.m1Balances[Len(cas.balances)] + cas.m2Balances[Len(cas.balances)]
    /\ cascade.returned =>
          /\ Len(cascade.balances) = cascade.months + 1
          /\ Len(cascade.m1Balances) = cascade.months + 1
          /\ Len(cascade.m2Balances) = cascade.months + 1
          /\ cascade.m1Balances[1] = m1.balance /\ cascade.m2Balances[1] = m2.balance
          /\ \A i \in 1..Len(cascade.balances) :
                cascade.balances[i] = cascade.m1Balances[i] + cascade.m2Balances[i]

\* C16 witness: a returned comparison of two loans that end in different
\* months, both still owing after the first cascade month
C16_Witness ==
    /\ pc = "done"
    /\ singleM1.months + 1 < singleM2.months
    /\ cascade.months > 2
    /\ cascade.m1Balances[2] > 0 /\ cascade.m2Balances[2] > 0

\* balances left by the scheduled payments of the latest cascade month
afterScheduledM1 == month.startB1 - month.p1

afterScheduledM2 == month.startB2 - month.p2

namedTarget ==
    IF afterScheduledM1 > 0 /\ afterScheduledM2 > 0
    THEN IF strategy = "avalanche"
         THEN (IF m1.rate >= m2.rate THEN "m1" ELSE "m2")
         ELSE (IF afterScheduledM1 <= afterScheduledM2 THEN "m1" ELSE "m2")
    ELSE IF afterScheduledM1 > 0 THEN "m1"
    ELSE IF afterScheduledM2 > 0 THEN "m2"
    ELSE "none"

\* C18: target selection -- in every month the pool is applied to one loan
\* only: while both loans owe after the scheduled payments, under avalanche
\* the loan with the higher rate (loan A on equal rates), under snowball the
\* loan with the smaller balance after the scheduled payment (loan A on
\* equal balances); when one loan owes, that loan.  The other loan is
\* reduced by its scheduled principal only.
C18_TargetSelection ==
    cas.months > 0 =>
        /\ namedTarget = "m1" =>
              /\ month.usedM1 = Min(month.availableExtra, afterScheduledM1)
              /\ month.usedM2 = 0
              /\ cas.b1 = afterScheduledM1 - month.usedM1
              /\ cas.b2 = afterScheduledM2
        /\ namedTarget = "m2" =>
              /\ month.usedM2 = Min(month.availableExtra, afterScheduledM2)
              /\ month.usedM1 = 0
              /\ cas.b2 = afterScheduledM2 - month.usedM2
              /\ cas.b1 = afterScheduledM1
        /\ namedTarget = "none" =>
              /\ month.usedM1 = 0 /\ month.usedM2 = 0
              /\ cas.b1 = 0 /\ cas.b2 = 0

\* C18 witness: a snowball month with both loans owing in which the pool
\* went to loan A, the smaller balance, although loan B has the higher rate
C18_Witness ==
    /\ pc = "cascade" /\ cas.months > 0 /\ strategy = "snowball"
    /\ afterScheduledM1 > 0 /\ afterScheduledM2 > afterScheduledM1
    /\ m2.rate > m1.rate
    /\ month.usedM1 > 0 /\ month.usedM1 = month.availableExtra
    /\ cas.b1 > 0

\* a : b = c : d, for amounts >= 0 of which neither pair is 0 : 0
sameRatio(a, b, c, d) ==
    /\ a \div GCD(a, b) = c \div GCD(c, d)
    /\ b \div GCD(a, b) = d \div GCD(c, d)

\* attribution totals of each contributor, in units of 1/Den cent
attributedToM1(c) == c.m1ExtraPaidToM1 + c.m1ExtraPaidToM2

attributedToM2(c) == c.m2ExtraPaidToM1 + c.m2ExtraPaidToM2

\* what C19 requires of one month of simulateCascade
attributionStep ==
    (pc = "cascade" /\ cas'.months = cas.months + 1) =>
        LET used == month'.usedM1 + month'.usedM2
            addedM1 == attributedToM1(cas') - attributedToM1(cas)
            addedM2 == attributedToM2(cas') - attributedToM2(cas)
            closes == Len(cas'.yearly) > Len(cas.yearly)
        IN  /\ used = Min(month'.availableExtra,
                          IF month'.dest = "m1" THEN month'.startB1 - month'.p1
                          ELSE IF month'.dest = "m2" THEN month'.startB2 - month'.p2
                          ELSE 0)
            /\ addedM1 + addedM2 = Den * used
            /\ used > 0 => sameRatio(addedM1, addedM2, month'.fromM1, month'.fromM2)
            /\ IF closes
               THEN /\ Last(cas'.yearly).fromM1 = roundMoney(cas.yearFromM1 + addedM1, Den)
                    /\ Last(cas'.yearly).fromM2 = roundMoney(cas.yearFromM2 + addedM2, Den)
               ELSE /\ cas'.yearFromM1 = cas.yearFromM1 + addedM1
                    /\ cas'.yearFromM2 = cas.yearFromM2 + addedM2

\* C19: attribution reflects the capped amount -- in every month, also when
\* only one loan is active and the pool exceeds the target's balance, what
\* is added to the attribution totals and to the yearly fromM1 / fromM2 is
\* the amount applied, min(pool, target balance), split in proportion to
\* the contributions to the pool.  (Refuted by the code.)
C19_AttributionCapped == [][attributionStep]_vars

\* what C20 requires of one month of simulateCascade: of a month whose pool
\* exceeds what the target owes, and of the month after such a month
surplusStep ==
    (pc = "cascade" /\ cas'.months = cas.months + 1) =>
        LET afterM1 == month'.startB1 - month'.p1
            afterM2 == month'.startB2 - month'.p2
        IN  /\ (afterM1 > 0 /\ afterM2 > 0 /\ month'.dest = "m1"
                  /\ month'.availableExtra > afterM1) =>
                    /\ cas'.b1 = 0 /\ month'.usedM1 = afterM1
                    /\ cas'.b2 = afterM2 /\ month'.usedM2 = 0
            /\ (afterM1 > 0 /\ afterM2 > 0 /\ month'.dest = "m2"
                  /\ month'.availableExtra > afterM2) =>
                    /\ cas'.b2 = 0 /\ month'.usedM2 = afterM2
                    /\ cas'.b1 = afterM1 /\ month'.usedM1 = 0
            \* the month before left a surplus: this month's pool is made of
            \* this month's contributions only
            /\ (cas.months > 0 /\ month.bothActive
                  /\ month.availableExtra > month.usedM1 + month.usedM2) =>
                    /\ month'.availableExtra = month'.fromM1 + month'.fromM2
                    /\ month'.fromM1 \in {0, extra1,
                                          clearedContribution(extra1, computeScheduledPayment(m1),
                                                              redirectScheduled, redirectExtra)}
                    /\ month'.fromM2 \in {0, extra2,
                                          clearedContribution(extra2, computeScheduledPayment(m2),
                                                              redirectScheduled, redirectExtra)}
                    /\ month'.usedM1 + month'.usedM2 <= month'.availableExtra

\* C20: surplus is discarded -- in a month in which both loans owe after the
\* scheduled payments and the pool exceeds what the target owes, the target
\* drops to 0 and the other loan's balance changes by its own scheduled
\* principal only; nothing of that pool is applied to it or carried into
\* the next month.
C20_SurplusDiscarded == [][surplusStep]_vars

\* C20 witness: just after a month in which both loans owed after the
\* scheduled payments and the pool was larger than what the target, loan A,
\* owed: loan A is at 0 and loan B, which paid scheduled principal, still owes
C20_Witness ==
    /\ pc = "cascade" /\ cas.months > 0
    /\ month.bothActive /\ month.dest = "m1"
    /\ month.availableExtra > afterScheduledM1 + 100
    /\ month.p2 > 0 /\ extra2 > 0
    /\ cas.b1 = 0 /\ cas.b2 = afterScheduledM2 /\ cas.b2 > 0

\* the accumulators of the current year are all at their starting value
accumulatorsReset(c) ==
    /\ c.yearInterest = 0 /\ c.yearExtra = 0
    /\ c.yearExtraToM1 = 0 /\ c.yearExtraToM2 = 0
    /\ c.yearFromM1 = 0 /\ c.yearFromM2 = 0

\* C21: yearly summaries -- after n months of a cascade run there is one
\* YearlySummary for every 12th month reached and, once both loans are paid
\* off, one for the final partial block unless the payoff fell on a 12th
\* month: a returned run of n months has exactly ceil(n / 12) summaries; they
\* are numbered 1, 2, ... consecutively; and the accumulators are at 0 after
\* each close.
C21_YearlySummaries ==
    /\ Len(cas.yearly) =
          (IF cas.b1 <= 0 /\ cas.b2 <= 0
           THEN (cas.months + 11) \div 12
           ELSE cas.months \div 12)
    /\ \A i \in 1..Len(cas.yearly) : cas.yearly[i].year = i
    /\ (cas.months % 12 = 0 \/ (cas.b1 <= 0 /\ cas.b2 <= 0)) => accumulatorsReset(cas)
    /\ cascade.returned =>
          /\ Len(cascade.yearly) = (cascade.months + 11) \div 12
          /\ \A i \in 1..Len(cascade.yearly) : cascade.yearly[i].year = i

\* C21 witness: a returned run whose final payoff fell on a 12th month, the
\* pool having been applied in its last year: one summary for that month
C21_Witness ==
    /\ cascade.returned /\ cascade.months % 12 = 0
    /\ Len(cascade.yearly) = cascade.months \div 12
    /\ applied(Last(cascade.yearly)) > 0
    /\ Last(cascade.yearly).interest > 0

\* what C22 requires of the scheduled payment of mortgage m
scheduledPaymentGuard(m) ==
    LET scheduled == computeScheduledPayment(m)
        firstInterest == interestOn(m.balance, m.rate)
    IN  /\ scheduled # NaN
        /\ scheduled >= 1
        /\ m.rate > 0 => (scheduled > firstInterest /\ scheduled - firstInterest >= 1)

\* C22: scheduled-payment guard -- for every normalised loan
\* computeScheduledPayment returns a payment >= 0.01 and, when rate > 0, a
\* payment greater than the first month's rounded interest, so that the
\* first month of simulateSingle pays at least 0.01 of principal.
\* (Refuted by the code: the payment of a loan whose term makes the power
\* of the amortisation formula overflow is NaN.)
C22_ScheduledPaymentGuard ==
    /\ scheduledPaymentGuard(m1)
    /\ (pc = "single1" /\ single.months >= 1) =>
          /\ single.balances[2] # NaN
          /\ single.balances[1] - single.balances[2] >= 1

RECURSIVE singleToEnd(_, _, _)
\* the locals of simulateSingle when its loop has ended
singleToEnd(s, m, extra) ==
    IF singleLoops(s)
    THEN CHOOSE r \in {singleToEnd(n, m, extra) : n \in {singleMonth(s, m, extra)}} : TRUE
    ELSE s

\* simulateSingle(m, extra), for a loan that is cleared before the cap
simulateSingle(m, extra) == singleReturn(singleToEnd(singleStart(m), m, extra))

\* the baseline as a function of the two loans and their own extras alone
separateRuns(ma, mb, e1, e2) ==
    simulateBaseline(simulateSingle(ma, e1), simulateSingle(mb, e2))

\* C23: baseline is independent of policy -- the baseline is made of two
\* independent simulateSingle runs, each with its own loan's extra; its
\* months are the larger of the two runs' months and its interest their sum;
\* it is a function of the loans and extras alone, so redirectScheduled,
\* redirectExtra and strategy change no field of it, and the returned
\* ComparisonResult holds it unchanged.
C23_BaselineIndependent ==
    /\ (pc = "cascade" /\ cas.months = 0) =>
          /\ singleM1 = simulateSingle(m1, extra1)
          /\ singleM2 = simulateSingle(m2, extra2)
          /\ baseline = separateRuns(m1, m2, extra1, extra2)
    /\ baseline.returned =>
          /\ baseline.months = Max(singleM1.months, singleM2.months)
          /\ baseline.interest = singleM1.interest + singleM2.interest
    /\ result.returned => result.baseline = baseline

\* C23 witness: a returned comparison under snowball with scheduled redirect
\* on, both loans bearing interest and having different extras; the policy
\* made the cascade shorter than the baseline
C23_Witness ==
    /\ pc = "done" /\ strategy = "snowball" /\ redirectScheduled /\ ~redirectExtra
    /\ extra1 > 0 /\ extra2 > extra1
    /\ m1.rate > 0 /\ m2.rate > 0
    /\ singleM1.months # singleM2.months
    /\ result.baseline.interest > 0
    /\ result.cascade.months < result.baseline.months

\* round(balance * monthlyRate) for a loan with a balance > 0, else 0
accrued(balance, rate) ==
    IF balance > 0 THEN roundMoney(balance * rate, 1200) ELSE 0

\* what C24 requires of one step
interestStep ==
    /\ cas'.interestTotal >= cas.interestTotal
    /\ (pc = "cascade" /\ cas'.months = cas.months + 1) =>
          /\ month'.i1 = accrued(cas.b1, m1.rate)
          /\ month'.i2 = accrued(cas.b2, m2.rate)
          /\ cas'.interestTotal = cas.interestTotal + month'.i1 + month'.i2
          /\ cas.b1 <= 0 => month'.i1 = 0
          /\ cas.b2 <= 0 => month'.i2 = 0
    /\ (pc \in {"single1", "single2"} /\ pc' = pc) =>
          /\ single'.interestTotal >= single.interestTotal
          /\ single'.months = single.months + 1 =>
                single'.interestTotal = single.interestTotal
                    + accrued(single.balance, IF pc = "single1" THEN m1.rate ELSE m2.rate)

\* C24: interest accrual -- the running total interest never decreases from
\* one month to the next; each month it grows by round(balance * monthlyRate)
\* for each loan whose balance is > 0 at the start of the month and by 0 for
\* a cleared loan.
C24_InterestAccrual == [][interestStep]_vars

\* C24 witness: just after a cascade month in which loan A, which bears
\* interest, was already cleared and accrued nothing while loan B accrued
C24_Witness ==
    /\ pc = "cascade" /\ cas.months > 1
    /\ m1.rate > 0 /\ month.startB1 = 0 /\ month.i1 = 0
    /\ month.startB2 > 0 /\ month.i2 > 0
    /\ cas.interestTotal > month.i2

\* C25: the scheduled payment amortises the loan exactly at its stated
\* term -- for a zero-rate loan with extra = 0 (payment = balance / months
\* rounded to cents) simulateSingle returns months equal to the loan's term,
\* not more.  (Refuted by the code: a payment rounded down leaves a rest
\* that takes one more month.)
C25_AmortisesAtTerm ==
    /\ (singleM1.returned /\ m1.rate = 0 /\ extra1 = 0) =>
          /\ singleM1.months <= m1.months
          /\ singleM1.months = m1.months
    /\ (singleM2.returned /\ m2.rate = 0 /\ extra2 = 0) =>
          /\ singleM2.months <= m2.months
          /\ singleM2.months = m2.months

\* the call has no overpayments and no redirection
noOverpayment == extra1 = 0 /\ extra2 = 0 /\ ~redirectScheduled /\ ~redirectExtra

paidInMonth ==
    month.i1 + month.i2 + month.p1 + month.p2 + month.usedM1 + month.usedM2

\* what the household pays each month
monthlyBudget ==
    computeScheduledPayment(m1) + computeScheduledPayment(m2) + extra1 + extra2

\* C27: monthly budget -- in every month of a cascade run the total money
\* paid that month never exceeds scheduledPaymentA + scheduledPaymentB +
\* extraA + extraB, including the month in which a loan is cleared by its
\* scheduled payment and that payment is redirected.  (Refuted by the code:
\* in that month the cleared loan's scheduled payment is paid to the loan
\* and enters the pool as well.)
C27_MonthlyBudget ==
    cas.months > 0 => paidInMonth <= monthlyBudget

\* what C28 requires of one month: of simulateSingle, and of simulateCascade
progressStep ==
    /\ (pc \in {"single1", "single2"} /\ pc' = pc /\ single'.months = single.months + 1) =>
          (single.balance > 0 =>
              /\ single'.balance # NaN
              /\ single'.balance <= single.balance - 1)
    /\ (pc = "cascade" /\ cas'.months = cas.months + 1) =>
          /\ cas.b1 > 0 =>
                /\ month'.p1 # NaN /\ month'.p1 >= 1
                /\ cas'.b1 # NaN /\ cas'.b1 <= cas.b1 - 1
          /\ cas.b2 > 0 =>
                /\ month'.p2 # NaN /\ month'.p2 >= 1
                /\ cas'.b2 # NaN /\ cas'.b2 <= cas.b2 - 1

\* C28: strict progress -- in every month of simulateSingle and of
\* simulateCascade each loan with a positive balance at the start of the
\* month ends the month with a balance at least 0.01 lower, for every
\* normalised loan.  (Refuted by the code for the loans whose scheduled
\* payment is NaN: their balance becomes NaN.)
C28_StrictProgress == [][progressStep]_vars

\* C29: the safety-cap error is raised only when the loop would run beyond
\* 12,000 months -- an error means that a balance was still owed after month
\* 12,000; a run whose last balance reaches 0 in month n <= 12,000, month
\* 12,000 included, returns.  (Refuted by the code: a run that clears its
\* last balance in month 12,000 raises the error.)
C29_CapOnlyBeyond ==
    pc = "error" =>
        \/ single.months = MAX_MONTHS /\ single.balance > 0
        \/ cas.months = MAX_MONTHS /\ ~(cas.b1 <= 0 /\ cas.b2 <= 0)

yearInterestOf(y) == y.interest

extraToM1Of(y) == y.extraToM1

extraToM2Of(y) == y.extraToM2

RECURSIVE extraSubtracted(_, _, _)
\* the pooled extra subtracted from a loan over the first n months of its
\* balance sequence: what each month took off the balance beyond the
\* scheduled principal
extraSubtracted(seq, m, n) ==
    IF n = 0 THEN 0
    ELSE LET p == scheduledPrincipal(seq[n], computeScheduledPayment(m),
                                     accrued(seq[n], m.rate))
         IN  (seq[n] - p - seq[n + 1]) + extraSubtracted(seq, m, n - 1)

\* C30: yearly interest adds up -- during a cascade run the interest of the
\* closed YearlySummaries and of the running year add up to the total
\* interest; for every completed run the interestAccrued of all summaries add
\* up to the run's totalInterest, and extraAppliedToLoanA /
\* extraAppliedToLoanB add up to the pooled extra subtracted from the
\* balances of loan A / loan B.
C30_YearlyAddsUp ==
    /\ SumOver(yearInterestOf, cas.yearly, Len(cas.yearly)) + cas.yearInterest
          = cas.interestTotal
    /\ cascade.returned =>
          /\ SumOver(yearInterestOf, cascade.yearly, Len(cascade.yearly))
                = cascade.interest
          /\ SumOver(extraToM1Of, cascade.yearly, Len(cascade.yearly))
                = extraSubtracted(cascade.m1Balances, m1, cascade.months)
          /\ SumOver(extraToM2Of, cascade.yearly, Len(cascade.yearly))
                = extraSubtracted(cascade.m2Balances, m2, cascade.months)

\* C30 witness: a completed run of more than one year, with interest in its
\* first year, to whose two loans pooled extra was applied
C30_Witness ==
    /\ cascade.returned /\ Len(cascade.yearly) >= 2
    /\ cascade.yearly[1].interest > 0
    /\ SumOver(extraToM1Of, cascade.yearly, Len(cascade.yearly)) > 0
    /\ SumOver(extraToM2Of, cascade.yearly, Len(cascade.yearly)) > 0

====
